---- MODULE Spec2Model ----
(***************************************************************************)
(* createDeepPropertySorter: a comparator factory that orders records by   *)
(* the first usable value found along a list of dot-separated paths.       *)
(*                                                                         *)
(* JavaScript values are tuples whose first element is the typeof tag:     *)
(*   <<"undefined">>, <<"null">>, <<"boolean", b>>, <<"function">>,        *)
(*   <<"number", kind, n>>, <<"string", chars>>, <<"object", props>>       *)
(* where chars is a sequence of one-character strings and props is a       *)
(* sequence of <<key, value>> pairs.  A path string is a sequence of       *)
(* tokens, each either the separator "." or a run of non-dot characters.   *)
(***************************************************************************)
EXTENDS Integers, Sequences, FiniteSets, TLC

VARIABLES version, keys, item, lookups, extracts, calls, data, sorted, pc

vars == <<version, keys, item, lookups, extracts, calls, data, sorted, pc>>

(***************************************************************************)
(* Values                                                                  *)
(***************************************************************************)
Undefined == <<"undefined">>
Null == <<"null">>
Func == <<"function">>
Bool(b) == <<"boolean", b>>
Num(n) == <<"number", "finite", n>>
NaN == <<"number", "NaN", 0>>
Infinity == <<"number", "Infinity", 0>>
NegInfinity == <<"number", "-Infinity", 0>>
Str(s) == <<"string", s>>
Obj(props) == <<"object", props>>
TypeError == <<"TypeError">>

typeof(v) == IF v[1] = "null" THEN "object" ELSE v[1]

(***************************************************************************)
(* Characters                                                              *)
(***************************************************************************)
Lower == <<"a","b","c","d","e","f","g","h","i","j","k","l","m",
           "n","o","p","q","r","s","t","u","v","w","x","y","z">>
Upper == <<"A","B","C","D","E","F","G","H","I","J","K","L","M",
           "N","O","P","Q","R","S","T","U","V","W","X","Y","Z">>
Digit == <<"0","1","2","3","4","5","6","7","8","9">>
WhiteSpace == {" "}

IndexOf(seq, c) == CHOOSE i \in 1..Len(seq) : seq[i] = c
Has(seq, c) == \E i \in 1..Len(seq) : seq[i] = c

Letters == {Lower[i] : i \in 1..Len(Lower)} \cup {Upper[i] : i \in 1..Len(Upper)}
Digits == {Digit[i] : i \in 1..Len(Digit)}

\* /[a-z]/i.test(c)
IsLetter(c) == c \in Letters
\* /\d/.test(c)
IsDigit(c) == c \in Digits

LowerOf ==
  [c \in {Upper[i] : i \in 1..Len(Upper)} \cup {"Ä"} |->
     IF c = "Ä" THEN "ä" ELSE Lower[IndexOf(Upper, c)]]

toLowerCaseChar(c) == IF c \in DOMAIN LowerOf THEN LowerOf[c] ELSE c

toLowerCase(s) == [i \in 1..Len(s) |-> toLowerCaseChar(s[i])]

RECURSIVE trimStart(_)
trimStart(s) ==
  IF s # <<>> /\ Head(s) \in WhiteSpace THEN trimStart(Tail(s)) ELSE s

RECURSIVE trimEnd(_)
trimEnd(s) ==
  IF s # <<>> /\ s[Len(s)] \in WhiteSpace
  THEN trimEnd(SubSeq(s, 1, Len(s) - 1))
  ELSE s

trim(s) == trimEnd(trimStart(s))

(***************************************************************************)
(* String(value) for a number                                              *)
(***************************************************************************)
RECURSIVE digitsOf(_)
digitsOf(n) ==
  IF n < 10 THEN <<Digit[n + 1]>>
  ELSE Append(digitsOf(n \div 10), Digit[(n % 10) + 1])

String(v) ==
  CASE v[2] = "NaN" -> <<"N","a","N">>
    [] v[2] = "Infinity" -> <<"I","n","f","i","n","i","t","y">>
    [] v[2] = "-Infinity" -> <<"-","I","n","f","i","n","i","t","y">>
    [] OTHER -> IF v[3] < 0 THEN <<"-">> \o digitsOf(0 - v[3])
                ELSE digitsOf(v[3])

(***************************************************************************)
(* getValueByPath: path.split('.').reduce((acc, key) => acc?.[key], obj)   *)
(***************************************************************************)
RECURSIVE splitFrom(_, _, _)
splitFrom(path, segs, cur) ==
  IF path = <<>> THEN Append(segs, cur)
  ELSE IF Head(path) = "." THEN splitFrom(Tail(path), Append(segs, cur), "")
  ELSE splitFrom(Tail(path), segs, cur \o Head(path))

\* path.split('.'): empty segments are kept as the key ""
split(path) == splitFrom(path, <<>>, "")

\* Properties every non-nullish value inherits from its prototype.
ProtoKeys == {"toString", "constructor"}

inherited(key) == IF key \in ProtoKeys THEN Func ELSE Undefined

hasOwn(props, key) == \E i \in 1..Len(props) : props[i][1] = key

ownValue(props, key) ==
  props[CHOOSE i \in 1..Len(props) :
          /\ props[i][1] = key
          /\ \A j \in (i + 1)..Len(props) : props[j][1] # key][2]

\* value[key] on a value that is neither undefined nor null
member(value, key) ==
  CASE value[1] = "object" ->
         IF hasOwn(value[2], key) THEN ownValue(value[2], key)
         ELSE inherited(key)
    [] value[1] = "string" ->
         IF key = "length" THEN Num(Len(value[2]))
         ELSE IF key = "0" /\ Len(value[2]) > 0 THEN Str(<<value[2][1]>>)
         ELSE inherited(key)
    [] OTHER -> inherited(key)

\* variant: acc[key], which throws on undefined and null
memberUnchecked(acc, key) ==
  IF acc = TypeError \/ acc[1] \in {"undefined", "null"} THEN TypeError
  ELSE member(acc, key)

\* acc?.[key]
optionalMember(acc, key) ==
  IF acc[1] \in {"undefined", "null"} THEN Undefined ELSE member(acc, key)

RECURSIVE reduce(_, _)
reduce(segs, acc) ==
  IF segs = <<>> THEN acc
  ELSE reduce(Tail(segs), optionalMember(acc, Head(segs)))

getValueByPath(obj, path) == reduce(split(path), obj)

(***************************************************************************)
(* getSortGroup                                                            *)
(***************************************************************************)
\* variant: an empty value is grouped with the symbols
getSortGroupNoMissing(value) ==
  IF value = <<>> THEN 2
  ELSE IF IsLetter(value[1]) THEN 0
  ELSE IF IsDigit(value[1]) THEN 1
  ELSE 2

getSortGroup(value) ==
  IF value = <<>> THEN 3
  ELSE IF IsLetter(value[1]) THEN 0
  ELSE IF IsDigit(value[1]) THEN 1
  ELSE 2

(***************************************************************************)
(* aVal.localeCompare(bVal, 'de-DE', { sensitivity: 'base' })              *)
(* Strings compare by their sequences of primary collation weights: case   *)
(* and accents carry no primary difference; white space sorts before       *)
(* punctuation, punctuation before digits, digits before letters.          *)
(***************************************************************************)
Punctuation == <<"_", "-", ".", "@", "#", "+">>

Alphabet ==
  WhiteSpace \cup {Punctuation[i] : i \in 1..Len(Punctuation)}
  \cup Digits \cup Letters \cup {"ä", "Ä"}

PrimaryWeights ==
  [c \in Alphabet |->
     CASE c \in WhiteSpace -> 1
       [] Has(Punctuation, c) -> 1 + IndexOf(Punctuation, c)
       [] Has(Digit, c) -> 10 + IndexOf(Digit, c)
       [] Has(Lower, c) -> 20 + IndexOf(Lower, c)
       [] Has(Upper, c) -> 20 + IndexOf(Upper, c)
       [] c \in {"ä", "Ä"} -> 21]

primaryWeight(c) == PrimaryWeights[c]

RECURSIVE localeCompare(_, _)
localeCompare(s, t) ==
  IF s = <<>> /\ t = <<>> THEN 0
  ELSE IF s = <<>> THEN -1
  ELSE IF t = <<>> THEN 1
  ELSE IF primaryWeight(Head(s)) < primaryWeight(Head(t)) THEN -1
  ELSE IF primaryWeight(Head(s)) > primaryWeight(Head(t)) THEN 1
  ELSE localeCompare(Tail(s), Tail(t))

(***************************************************************************)
(* createDeepPropertySorter                                                *)
(***************************************************************************)
\* Array.isArray(keyOrKeys) ? keyOrKeys : [keyOrKeys]
normalizeKeys(keyOrKeys) ==
  IF keyOrKeys[1] = "array" THEN keyOrKeys[2] ELSE <<keyOrKeys[2]>>

\* variants of the loop body: a number is taken only when truthy; a string
\* is taken whenever present, blank or not
tryValueTruthy(value) ==
  IF typeof(value) = "number" /\ value # Num(0) /\ value # NaN
  THEN <<TRUE, String(value)>>
  ELSE IF typeof(value) = "string" /\ trim(value[2]) # <<>>
       THEN <<TRUE, toLowerCase(trim(value[2]))>>
  ELSE <<FALSE, <<>>>>

tryValuePresent(value) ==
  IF typeof(value) = "number" THEN <<TRUE, String(value)>>
  ELSE IF typeof(value) = "string"
       THEN <<TRUE, toLowerCase(trim(value[2]))>>
  ELSE <<FALSE, <<>>>>

\* The body of the for loop of getFirstValid for one resolved value:
\* <<TRUE, s>> when the loop returns s, <<FALSE, <<>>>> when it goes on.
tryValue(value) ==
  IF typeof(value) = "number" THEN <<TRUE, String(value)>>
  ELSE IF typeof(value) = "string" /\ trim(value[2]) # <<>>
       THEN <<TRUE, toLowerCase(trim(value[2]))>>
  ELSE <<FALSE, <<>>>>

RECURSIVE getFirstValidFrom(_, _, _)
getFirstValidFrom(ks, i, it) ==
  IF i > Len(ks) THEN <<>>
  ELSE LET r == tryValue(getValueByPath(it, ks[i]))
       IN  IF r[1] THEN r[2] ELSE getFirstValidFrom(ks, i + 1, it)

getFirstValid(ks, it) == getFirstValidFrom(ks, 1, it)

\* variants of the group step: the sign of the group difference only; no
\* grouping at all; the group decides only when the first value is the lower
groupOrLocaleSign(aVal, bVal) ==
  LET aGroup == getSortGroup(aVal)
      bGroup == getSortGroup(bVal)
  IN  IF aGroup < bGroup THEN -1
      ELSE IF aGroup > bGroup THEN 1
      ELSE localeCompare(aVal, bVal)

groupOrLocaleUngrouped(aVal, bVal) == localeCompare(aVal, bVal)

groupOrLocaleOneSided(aVal, bVal) ==
  LET aGroup == getSortGroup(aVal)
      bGroup == getSortGroup(bVal)
  IN  IF aGroup < bGroup THEN aGroup - bGroup
      ELSE localeCompare(aVal, bVal)

groupOrLocaleLetterFirst(aVal, bVal) ==
  LET aGroup == getSortGroup(aVal)
      bGroup == getSortGroup(bVal)
  IN  IF aGroup = 0 /\ bGroup # 0 THEN -1
      ELSE localeCompare(aVal, bVal)

groupOrLocale(aVal, bVal) ==
  LET aGroup == getSortGroup(aVal)
      bGroup == getSortGroup(bVal)
  IN  IF aGroup # bGroup THEN aGroup - bGroup
      ELSE localeCompare(aVal, bVal)

\* the comparator returned by createDeepPropertySorter
compare(ks, a, b) == groupOrLocale(getFirstValid(ks, a), getFirstValid(ks, b))

(***************************************************************************)
(* The two-group version of the comparator (src/App.js): strings only,     *)
(* letter-led values before everything else.                               *)
(***************************************************************************)
tryValueApp(value) ==
  IF typeof(value) = "string" /\ trim(value[2]) # <<>>
  THEN <<TRUE, toLowerCase(trim(value[2]))>>
  ELSE <<FALSE, <<>>>>

RECURSIVE getFirstValidAppFrom(_, _, _)
getFirstValidAppFrom(ks, i, it) ==
  IF i > Len(ks) THEN <<>>
  ELSE LET r == tryValueApp(getValueByPath(it, ks[i]))
       IN  IF r[1] THEN r[2] ELSE getFirstValidAppFrom(ks, i + 1, it)

getFirstValidApp(ks, it) == getFirstValidAppFrom(ks, 1, it)

\* /^[a-z]/i.test(value)
startsWithLetter(value) == value # <<>> /\ IsLetter(value[1])

compareApp(ks, a, b) ==
  LET aVal == getFirstValidApp(ks, a)
      bVal == getFirstValidApp(ks, b)
      aIsLetter == startsWithLetter(aVal)
      bIsLetter == startsWithLetter(bVal)
  IN  IF aIsLetter /\ ~bIsLetter THEN -1
      ELSE IF ~aIsLetter /\ bIsLetter THEN 1
      ELSE localeCompare(aVal, bVal)

Versions == {"part_000", "App"}

comparator(v, ks, a, b) ==
  IF v = "App" THEN compareApp(ks, a, b) ELSE compare(ks, a, b)

(***************************************************************************)
(* [...data].sort(comparator): the host's stable sort, as an insertion     *)
(* sort that moves an element left only past strictly greater elements.    *)
(***************************************************************************)
RECURSIVE insert(_, _, _, _)
insert(v, ks, acc, x) ==
  IF acc = <<>> THEN <<x>>
  ELSE IF comparator(v, ks, acc[Len(acc)], x) > 0
       THEN Append(insert(v, ks, SubSeq(acc, 1, Len(acc) - 1), x), acc[Len(acc)])
       ELSE Append(acc, x)

RECURSIVE sortFrom(_, _, _, _, _)
sortFrom(v, ks, arr, i, acc) ==
  IF i > Len(arr) THEN acc
  ELSE sortFrom(v, ks, arr, i + 1, insert(v, ks, acc, arr[i]))

sort(v, ks, arr) == sortFrom(v, ks, arr, 1, <<>>)

\* a || b
or(a, b) ==
  IF \/ a[1] \in {"undefined", "null"}
     \/ a = Bool(FALSE)
     \/ a = Str(<<>>)
     \/ a = NaN
     \/ a = Num(0)
  THEN b ELSE a

\* i => i.alias || i.profile?.name || i.name
title(i) ==
  or(or(member(i, "alias"), optionalMember(member(i, "profile"), "name")),
     member(i, "name"))

titles(arr) == [n \in 1..Len(arr) |-> title(arr[n])]

(***************************************************************************)
(* Inputs: the records of the repository's tests, and records holding the  *)
(* other kinds of value a field can have.                                  *)
(***************************************************************************)
\* { alias: '', profile: { name: 'John' }, name: 'Alpha' }
TestJohn ==
  Obj(<< <<"alias", Str(<<>>)>>, <<"profile", Obj(<< <<"name", Str(<<"J", "o", "h", "n">>)>> >>)>>, <<"name", Str(<<"A", "l", "p", "h", "a">>)>> >>)

\* { alias: '#Provider', profile: { name: 'Zack' }, name: 'Zeta' }
TestProvider ==
  Obj(<< <<"alias", Str(<<"#", "P", "r", "o", "v", "i", "d", "e", "r">>)>>, <<"profile", Obj(<< <<"name", Str(<<"Z", "a", "c", "k">>)>> >>)>>, <<"name", Str(<<"Z", "e", "t", "a">>)>> >>)

\* { alias: 'Anna', profile: { name: 'Beta' }, name: 'Bravo' }
TestAnna ==
  Obj(<< <<"alias", Str(<<"A", "n", "n", "a">>)>>, <<"profile", Obj(<< <<"name", Str(<<"B", "e", "t", "a">>)>> >>)>>, <<"name", Str(<<"B", "r", "a", "v", "o">>)>> >>)

\* { name: 'Delta' }
TestDelta ==
  Obj(<< <<"name", Str(<<"D", "e", "l", "t", "a">>)>> >>)

\* {}
TestEmpty ==
  Obj(<<>>)

\* { name: 'Bravo' }
TestBravo ==
  Obj(<< <<"name", Str(<<"B", "r", "a", "v", "o">>)>> >>)

\* { profile: { name: 'Alpha' } }
TestAlpha ==
  Obj(<< <<"profile", Obj(<< <<"name", Str(<<"A", "l", "p", "h", "a">>)>> >>)>> >>)

\* { alias: '@admin' }
TestAdmin ==
  Obj(<< <<"alias", Str(<<"@", "a", "d", "m", "i", "n">>)>> >>)

\* { alias: 'beta' }
TestBeta ==
  Obj(<< <<"alias", Str(<<"b", "e", "t", "a">>)>> >>)

\* { alias: '#user' }
TestUser ==
  Obj(<< <<"alias", Str(<<"#", "u", "s", "e", "r">>)>> >>)

\* { alias: 'alpha' }
TestAlias ==
  Obj(<< <<"alias", Str(<<"a", "l", "p", "h", "a">>)>> >>)

\* { a: { b: { c: 'value' } } }
TestNested ==
  Obj(<< <<"a", Obj(<< <<"b", Obj(<< <<"c", Str(<<"v", "a", "l", "u", "e">>)>> >>)>> >>)>> >>)

\* { a: { b: 123 } }
TestInvalid ==
  Obj(<< <<"a", Obj(<< <<"b", Num(123)>> >>)>> >>)

\* { name: 'Serhii' }
TestSerhii ==
  Obj(<< <<"name", Str(<<"S", "e", "r", "h", "i", "i">>)>> >>)

\* { alias: 0, name: 'Zed' }
RecZero ==
  Obj(<< <<"alias", Num(0)>>, <<"name", Str(<<"Z", "e", "d">>)>> >>)

\* { alias: '  ', name: '1a' }
RecBlank ==
  Obj(<< <<"alias", Str(<<" ", " ">>)>>, <<"name", Str(<<"1", "a">>)>> >>)

\* { alias: ' ANNA ', name: 42 }
RecPadded ==
  Obj(<< <<"alias", Str(<<" ", "A", "N", "N", "A", " ">>)>>, <<"name", Num(42)>> >>)

\* { alias: NaN, name: 'nan' }
RecNaN ==
  Obj(<< <<"alias", NaN>>, <<"name", Str(<<"n", "a", "n">>)>> >>)

\* { alias: null, profile: { name: Infinity }, name: -Infinity }
RecInfinity ==
  Obj(<< <<"alias", Null>>, <<"profile", Obj(<< <<"name", Infinity>> >>)>>, <<"name", NegInfinity>> >>)

\* { alias: true, profile: 'abc', name: -5 }
RecNegative ==
  Obj(<< <<"alias", Bool(TRUE)>>, <<"profile", Str(<<"a", "b", "c">>)>>, <<"name", Num(-5)>> >>)

\* { alias: {}, profile: { name: 'Ärger' }, name: 'x' }
RecUmlaut ==
  Obj(<< <<"alias", Obj(<<>>)>>, <<"profile", Obj(<< <<"name", Str(<<"Ä", "r", "g", "e", "r">>)>> >>)>>, <<"name", Str(<<"x">>)>> >>)

\* { profile: { '': { name: 'Dot' } }, name: ' ' }
RecEmptyKey ==
  Obj(<< <<"profile", Obj(<< <<"", Obj(<< <<"name", Str(<<"D", "o", "t">>)>> >>)>> >>)>>, <<"name", Str(<<" ">>)>> >>)

\* the arrays sorted by the tests
TestData == <<TestJohn, TestProvider, TestAnna, TestDelta>>
TestAliases == <<TestAdmin, TestBeta, TestUser, TestAlias>>
TestMissing == <<TestEmpty, TestBravo, TestAlpha>>

\* { alias: '', profile: { name: 0 }, name: 'Zed' }
RecZeroNested ==
  Obj(<< <<"alias", Str(<<>>)>>, <<"profile", Obj(<< <<"name", Num(0)>> >>)>>, <<"name", Str(<<"Z", "e", "d">>)>> >>)

\* the records the comparator is called on
Pool == {TestJohn, TestProvider, TestAnna, TestEmpty, RecZero, RecPadded}

\* the records that fill the arrays handed to sort
SortPool == Pool \cup {TestDelta, RecBlank}

\* the records paths are resolved on
Records ==
  SortPool \cup
  {RecZeroNested, TestBravo, TestAlpha, TestAdmin, TestBeta, TestUser, TestAlias,
   TestNested, TestInvalid, TestSerhii, RecNaN, RecInfinity, RecNegative,
   RecUmlaut, RecEmptyKey, Null, Undefined}

PathAlias == <<"alias">>
PathName == <<"name">>
PathProfileName == <<"profile", ".", "name">>
PathABC == <<"a", ".", "b", ".", "c">>
PathNameLength == <<"name", ".", "length">>
PathProfileLength == <<"profile", ".", "length">>
PathAliasToString == <<"alias", ".", "toString">>
PathEmptySegment == <<"profile", ".", ".", "name">>

\* createDeepPropertySorter(['alias', 'profile.name', 'name'])
KeysTest == <<"array", <<PathAlias, PathProfileName, PathName>>>>
\* createDeepPropertySorter(['profile.name', 'name'])
KeysMissing == <<"array", <<PathProfileName, PathName>>>>
\* createDeepPropertySorter('alias')
KeysAlias == <<"string", PathAlias>>
\* createDeepPropertySorter('name')
KeysName == <<"string", PathName>>

SorterKeys == {KeysTest, KeysMissing, KeysAlias}

ExtractKeys ==
  SorterKeys \cup
  {KeysName,
   <<"string", PathABC>>,
   <<"array", <<PathNameLength, PathProfileName, PathAlias>>>>,
   <<"array", <<PathProfileLength, PathAliasToString, PathName>>>>,
   <<"array", <<PathEmptySegment, PathName, PathAlias>>>>}

\* how many comparator calls are remembered
MaxCalls == 3
\* the longest generated array handed to sort
MaxLen == 3

(***************************************************************************)
(* State: the closed-over keys, and what each call returned.               *)
(***************************************************************************)
Idle ==
  /\ item = Undefined
  /\ lookups = {}
  /\ extracts = {}
  /\ calls = {}
  /\ data = <<>>
  /\ sorted = <<>>
  /\ pc = "ready"

\* the comparator is called on two records
Compare(a, b) ==
  /\ Cardinality(calls) < MaxCalls
  /\ calls' = calls \cup {<<a, b, comparator(version, keys, a, b)>>}
  /\ UNCHANGED <<version, keys, item, lookups, extracts, data, sorted, pc>>

\* getValueByPath(item, path)
GetValueByPath(path) ==
  /\ lookups' = lookups \cup {<<path, getValueByPath(item, path)>>}
  /\ UNCHANGED <<version, keys, item, extracts, calls, data, sorted, pc>>

\* getFirstValid(item)
GetFirstValid ==
  /\ extracts' = extracts \cup {getFirstValid(keys, item)}
  /\ UNCHANGED <<version, keys, item, lookups, calls, data, sorted, pc>>

\* [...data].sort(createDeepPropertySorter(keys))
Sort ==
  /\ pc = "ready"
  /\ sorted' = sort(version, keys, data)
  /\ pc' = "sorted"
  /\ UNCHANGED <<version, keys, item, lookups, extracts, calls, data>>

(***************************************************************************)
(* Spec: the four-group comparator called on pairs of records.             *)
(***************************************************************************)
Init ==
  /\ version = "part_000"
  /\ \E k \in SorterKeys : keys = normalizeKeys(k)
  /\ Idle

Next == \E a \in Pool, b \in Pool : Compare(a, b)

Spec == Init /\ [][Next]_vars

(***************************************************************************)
(* SpecExtract: path resolution and value extraction on one record.        *)
(***************************************************************************)
InitExtract ==
  /\ version = "part_000"
  /\ \E k \in ExtractKeys : keys = normalizeKeys(k)
  /\ item \in Records
  /\ lookups = {}
  /\ extracts = {}
  /\ calls = {}
  /\ data = <<>>
  /\ sorted = <<>>
  /\ pc = "ready"

NextExtract ==
  \/ \E i \in 1..Len(keys) : GetValueByPath(keys[i])
  \/ GetFirstValid

SpecExtract == InitExtract /\ [][NextExtract]_vars

(***************************************************************************)
(* SpecSort: an array sorted with the comparator of either version.        *)
(***************************************************************************)
Arrays ==
  {TestData, TestAliases, TestMissing} \cup
  UNION {[1..n -> SortPool] : n \in 0..MaxLen}

InitSort ==
  /\ version \in Versions
  /\ \E k \in SorterKeys : keys = normalizeKeys(k)
  /\ data \in Arrays
  /\ item = Undefined
  /\ lookups = {}
  /\ extracts = {}
  /\ calls = {}
  /\ sorted = <<>>
  /\ pc = "ready"

NextSort == Sort

SpecSort == InitSort /\ [][NextSort]_vars

(***************************************************************************)
(* Vocabulary of the properties                                            *)
(***************************************************************************)
Sign(n) == IF n < 0 THEN -1 ELSE IF n > 0 THEN 1 ELSE 0

\* the SortGroup of an extracted value and its ordinal
GroupOf(s) ==
  IF s = <<>> THEN "Missing"
  ELSE IF IsLetter(s[1]) THEN "Letter"
  ELSE IF IsDigit(s[1]) THEN "Digit"
  ELSE "Symbol"

Ordinal(g) ==
  CASE g = "Letter" -> 0 [] g = "Digit" -> 1 [] g = "Symbol" -> 2
    [] g = "Missing" -> 3

\* the extracted value of a record under the closed-over keys
Extracted(r) == getFirstValid(keys, r)

\* the value path number i of the keys resolves to on the item
Resolved(i) == getValueByPath(item, keys[i])

IsBlank(v) == v[1] = "string" /\ trim(v[2]) = <<>>
IsAbsent(v) == v[1] \in {"undefined", "null"}
IsUsable(v) == v[1] = "number" \/ (v[1] = "string" /\ trim(v[2]) # <<>>)

(***************************************************************************)
(* Properties of the comparator (Spec)                                     *)
(***************************************************************************)
\* C1: whenever the extracted values of the two records of a call fall in
\* different sort groups, the call returns the group ordinal of the first
\* minus the group ordinal of the second.
C1_GroupDifference ==
  \A c \in calls :
    LET ga == Ordinal(GroupOf(Extracted(c[1])))
        gb == Ordinal(GroupOf(Extracted(c[2])))
    IN  ga # gb => c[3] = ga - gb

C1_Witness ==
  \E c \in calls :
    /\ GroupOf(Extracted(c[1])) = "Letter"
    /\ GroupOf(Extracted(c[2])) = "Missing"
    /\ c[3] = -3

\* C2: a call whose first record is letter-led and whose second is digit-led,
\* symbol-led or missing returns a negative number, and the call with the
\* two records exchanged returns a positive number.
C2_LetterFirst ==
  \A c \in calls :
    LET la == GroupOf(Extracted(c[1])) = "Letter"
        lb == GroupOf(Extracted(c[2])) = "Letter"
    IN  /\ (la /\ ~lb) => c[3] < 0
        /\ (~la /\ lb) => c[3] > 0

C2_Witness ==
  \E c \in calls, d \in calls :
    /\ c[1] = d[2] /\ c[2] = d[1]
    /\ GroupOf(Extracted(c[1])) = "Letter"
    /\ GroupOf(Extracted(c[2])) = "Symbol"
    /\ localeCompare(Extracted(c[1]), Extracted(c[2])) > 0
    /\ c[3] < 0 /\ d[3] > 0

\* C3: a call on a record with a non-empty extracted value and a record whose
\* extracted value is empty returns a negative number, and the call with the
\* two exchanged a positive number.
C3_MissingLast ==
  \A c \in calls :
    /\ (Extracted(c[1]) # <<>> /\ Extracted(c[2]) = <<>>) => c[3] < 0
    /\ (Extracted(c[1]) = <<>> /\ Extracted(c[2]) # <<>>) => c[3] > 0

C3_Witness ==
  \E c \in calls, d \in calls :
    /\ c[1] = d[2] /\ c[2] = d[1]
    /\ GroupOf(Extracted(c[1])) = "Symbol"
    /\ Extracted(c[2]) = <<>>
    /\ c[3] < 0 /\ d[3] > 0

\* C6: a call on a record and itself returns 0, and two calls on the same
\* two records in opposite orders return results of opposite signs.
C6_Antisymmetric ==
  /\ \A c \in calls : c[1] = c[2] => c[3] = 0
  /\ \A c \in calls, d \in calls :
       (c[1] = d[2] /\ c[2] = d[1]) => Sign(c[3]) = 0 - Sign(d[3])

C6_Witness ==
  /\ \E c \in calls : c[1] = c[2] /\ c[3] = 0
  /\ \E c \in calls, d \in calls :
       /\ c[1] = d[2] /\ c[2] = d[1]
       /\ GroupOf(Extracted(c[1])) = "Digit"
       /\ GroupOf(Extracted(c[2])) = "Letter"
       /\ c[3] > 0 /\ d[3] < 0

\* C10: if a call on x, y and a call on y, z both return at most 0, a call
\* on x, z returns at most 0.
C10_Transitive ==
  \A c \in calls, d \in calls, e \in calls :
    (/\ c[2] = d[1] /\ e[1] = c[1] /\ e[2] = d[2]
     /\ c[3] <= 0 /\ d[3] <= 0) => e[3] <= 0

C10_Witness ==
  \E c \in calls, d \in calls, e \in calls :
    /\ c[2] = d[1] /\ e[1] = c[1] /\ e[2] = d[2]
    /\ c[1] # c[2] /\ d[1] # d[2] /\ e[1] # e[2]
    /\ GroupOf(Extracted(c[1])) = "Digit"
    /\ GroupOf(Extracted(c[2])) = "Symbol"
    /\ GroupOf(Extracted(d[2])) = "Missing"
    /\ c[3] < 0 /\ d[3] < 0 /\ e[3] < 0

(***************************************************************************)
(* Properties of extraction and path resolution (SpecExtract)              *)
(***************************************************************************)
\* C4: when a path of the keys resolves to the number 0 and no path before
\* it resolves to a usable value, getFirstValid returns "0", of group Digit,
\* whatever the later paths hold.
C4_ZeroIsUsable ==
  \A i \in 1..Len(keys) :
    (/\ Resolved(i) = Num(0)
     /\ \A j \in 1..(i - 1) : ~IsUsable(Resolved(j)))
    => \A e \in extracts : e = <<"0">> /\ GroupOf(e) = "Digit"

C4_Witness ==
  /\ extracts = {<<"0">>}
  /\ \E i \in 2..Len(keys) :
       /\ Resolved(i) = Num(0)
       /\ \A j \in 1..(i - 1) : ~IsUsable(Resolved(j))
       /\ \E j \in (i + 1)..Len(keys) :
            Resolved(j)[1] = "string" /\ ~IsBlank(Resolved(j))

\* C5: when a path of the keys resolves to a string that is not blank and
\* every path before it resolves to nothing usable (an empty or blank
\* string, an absent value), getFirstValid returns that string, trimmed and
\* lowercased: the blank and absent ones are skipped, and no later path is
\* used.
C5_FirstUsableWins ==
  \A i \in 1..Len(keys) :
    (/\ Resolved(i)[1] = "string" /\ ~IsBlank(Resolved(i))
     /\ \A j \in 1..(i - 1) : ~IsUsable(Resolved(j)))
    => \A e \in extracts : e = toLowerCase(trim(Resolved(i)[2]))

C5_Witness ==
  /\ extracts # {}
  /\ \E i \in 3..Len(keys) :
       /\ Resolved(i)[1] = "string" /\ ~IsBlank(Resolved(i))
       /\ \E j \in 1..(i - 1) : IsBlank(Resolved(j))
       /\ \E j \in 1..(i - 1) : IsAbsent(Resolved(j))
       /\ \A j \in 1..(i - 1) : IsBlank(Resolved(j)) \/ IsAbsent(Resolved(j))

\* the value the walk of a path has reached before it looks up segment k
Current(segs, k) == reduce(SubSeq(segs, 1, k - 1), item)

IsPrimitive(v) == v[1] \in {"number", "string", "boolean"}

\* the properties a primitive has
HasProperty(v, key) ==
  \/ key \in ProtoKeys
  \/ v[1] = "string" /\ key = "length"
  \/ v[1] = "string" /\ key = "0" /\ v[2] # <<>>

\* the value stored under the segments along nested objects, if there is one
RECURSIVE StoredAt(_, _)
StoredAt(v, segs) ==
  IF segs = <<>> THEN <<"stored", v>>
  ELSE IF v[1] = "object" /\ hasOwn(v[2], Head(segs))
       THEN StoredAt(ownValue(v[2], Head(segs)), Tail(segs))
  ELSE <<"none">>

\* C8: no lookup raises an error; a lookup yields absent whenever at some
\* step the current value is absent or is not an object; it yields the
\* stored value when every segment exists along nested objects.
C8_ShortCircuit ==
  \A l \in lookups :
    LET segs == split(l[1])
    IN  /\ l[2] # TypeError
        /\ (\E k \in 1..Len(segs) : Current(segs, k)[1] # "object")
           => l[2] = Undefined
        /\ StoredAt(item, segs) # <<"none">>
           => l[2] = StoredAt(item, segs)[2]

\* C8, amended: no lookup raises an error; a lookup yields absent whenever at
\* some step the current value is undefined or null, or is a primitive that
\* has no property named by the segment; a segment that names a property of
\* a primitive is looked up on it (the length of a string is a number); the
\* lookup yields the stored value when every segment exists along nested
\* objects.
C8_NullishShortCircuit ==
  \A l \in lookups :
    LET segs == split(l[1])
    IN  /\ l[2] # TypeError
        /\ (\E k \in 1..Len(segs) : IsAbsent(Current(segs, k)))
           => l[2] = Undefined
        /\ (\E k \in 1..Len(segs) :
              /\ IsPrimitive(Current(segs, k))
              /\ ~HasProperty(Current(segs, k), segs[k]))
           => l[2] = Undefined
        /\ (/\ Current(segs, Len(segs))[1] = "string"
            /\ segs[Len(segs)] = "length")
           => l[2] = Num(Len(Current(segs, Len(segs))[2]))
        /\ StoredAt(item, segs) # <<"none">>
           => l[2] = StoredAt(item, segs)[2]

C8_Witness ==
  /\ \E l \in lookups :
       /\ Len(split(l[1])) = 2
       /\ IsAbsent(Current(split(l[1]), 2))
       /\ l[2] = Undefined
  /\ \E l \in lookups :
       /\ Len(split(l[1])) = 2
       /\ Current(split(l[1]), 2)[1] = "string"
       /\ l[2][1] = "number"

\* C9: every value getFirstValid returns is its own trimmed, lowercased form.
C9_Normalized ==
  \A e \in extracts : e = toLowerCase(trim(e))

(***************************************************************************)
(* Properties of the sorted test data (SpecSort)                           *)
(***************************************************************************)
\* C7: sorting the test data by ['alias', 'profile.name', 'name'] gives the
\* titles 'Anna', 'John', 'Delta', '#Provider'.
C7_TestOrder ==
  (pc = "sorted" /\ data = TestData /\ keys = normalizeKeys(KeysTest))
  => titles(sorted) =
       <<Str(<<"A", "n", "n", "a">>), Str(<<"J", "o", "h", "n">>),
         Str(<<"D", "e", "l", "t", "a">>),
         Str(<<"#", "P", "r", "o", "v", "i", "d", "e", "r">>)>>

====
